---- MODULE Spec2Model ----
(***************************************************************************)
(* Blog generation workflow (LangGraph state graph) of                     *)
(* blogging-with-langchain: main.py -> graph.generate_blog_post ->         *)
(* research -> writer -> formatter -> seo -> editor -> {publisher|writer}. *)
(*                                                                         *)
(* BlogState is a Python dict (TypedDict, total=False): it is modelled as  *)
(* a function whose DOMAIN is the set of keys present.  Text values are    *)
(* sequences of chunks, so that "" is << >> and Python truthiness of a     *)
(* string is "# << >>".                                                    *)
(***************************************************************************)
EXTENDS Integers, Sequences, FiniteSets, TLC

VARIABLES
    pc,           \* next graph node to run, or START / END / RAISED / EXIT
    state,        \* the BlogState dict threaded through the nodes
    trace,        \* names of the nodes invoked so far, in order
    output_file,  \* what publisher_node wrote to the local markdown file
    post_data,    \* what publisher_node handed to GhostCMSTool._run
    exit_code,    \* return value of main(), -1 while main() is running
    call,         \* arguments of a direct call of a pure function
    result        \* return value of that call

vars == <<pc, state, trace, output_file, post_data, exit_code, call, result>>

----------------------------------------------------------------------------
(* Program constants                                                       *)

WORD_COUNT_TARGET == 3500
MIN_INLINE_LINKS == 10
NUM_SECTIONS == 4
INITIAL_MAX_REVISIONS == 3
DEFAULT_MAX_REVISIONS == 3
FALLBACK_PASS_SCORE == 7
FALLBACK_FAIL_SCORE == 5

(* Bounds of the model                                                     *)

MaxTarget == 12
MaxWords == 13
MaxRevCount == 4

----------------------------------------------------------------------------
(* Python dict helpers                                                     *)

EmptyDict == [k \in {} |-> TRUE]

Get(d, k, default) == IF k \in DOMAIN d THEN d[k] ELSE default

\* LangGraph merges a node's partial update key by key; BlogState declares
\* no reducer for any key, so every key of the update overwrites.
Merge(d, update) ==
    [k \in DOMAIN d \cup DOMAIN update |->
        IF k \in DOMAIN update THEN update[k] ELSE d[k]]

\* Python "x or y" on text
OrText(x, y) == IF x # <<>> THEN x ELSE y

----------------------------------------------------------------------------
(* graph.route_editor_decision                                             *)

\* mutant: the budget test admits revision_count = max_revisions
route_editor_decision_inclusive(s) ==
    LET approval_status == Get(s, "approval_status", "pending")
        revision_count == Get(s, "revision_count", 0)
        max_revisions == Get(s, "max_revisions", DEFAULT_MAX_REVISIONS)
    IN  IF approval_status \in {"approved", "force_publish"}
        THEN "publisher"
        ELSE IF approval_status = "rejected" /\ revision_count <= max_revisions
             THEN "writer"
             ELSE "publisher"

route_editor_decision(s) ==
    LET approval_status == Get(s, "approval_status", "pending")
        revision_count == Get(s, "revision_count", 0)
        max_revisions == Get(s, "max_revisions", DEFAULT_MAX_REVISIONS)
    IN  IF approval_status \in {"approved", "force_publish"}
        THEN "publisher"
        ELSE IF approval_status = "rejected" /\ revision_count < max_revisions
             THEN "writer"
             ELSE "publisher"

----------------------------------------------------------------------------
(* tools.content_analyzer.ContentAnalysisTool._run                         *)
(* An article is represented by what the analyzer measures of it: word     *)
(* count, link count, number of "# " and "## " headings; brace tells       *)
(* whether its text holds a brace that str.format parsing rejects.         *)

Article(wc, links, h1, h2, brace) ==
    [kind |-> "article", wc |-> wc, links |-> links, h1 |-> h1, h2 |-> h2,
     brace |-> brace]

AnalyzeContent(content) ==
    IF content = <<>>
    THEN [word_count |-> 0, total_links |-> 0, h1_count |-> 0, h2_count |-> 0]
    ELSE [word_count |-> content[1].wc, total_links |-> content[1].links,
          h1_count |-> content[1].h1, h2_count |-> content[1].h2]

----------------------------------------------------------------------------
(* nodes.editor.editor_node                                                *)

\* int(word_count_target * 0.95): the double product truncated toward zero;
\* for 0 <= t <= 200000 this equals floor(19 t / 20).
\* mutant: no tolerance, the threshold is the target itself
MinWordCount_noTolerance(word_count_target) == word_count_target

MinWordCount(word_count_target) == (19 * word_count_target) \div 20

MechanicalChecks(analysis, min_word_count) ==
    [word_count |-> analysis.word_count >= min_word_count,
     min_links |-> analysis.total_links >= MIN_INLINE_LINKS,
     has_h1 |-> analysis.h1_count = 1,
     has_sections |-> analysis.h2_count >= NUM_SECTIONS]

CheckOrder == <<"word_count", "min_links", "has_h1", "has_sections">>

\* [f"{check} failed" for check, passed in checks.items() if not passed]
FailedChecks(checks) ==
    LET Failed(c) == ~checks[c]
    IN  SelectSeq(CheckOrder, Failed)

\* the try block of editor_node yields an assessment dict exactly when the
\* chain call returns and its output parses to a JSON object
LlmParsed(llm) == llm.kind = "assessment"

\* <<passes_review, cohesiveness_score, issues, feedback>>
Review(s, llm) ==
    LET article_content ==
            OrText(Get(s, "formatted_content", <<>>), Get(s, "article_content", <<>>))
        word_count_target == Get(s, "word_count_target", WORD_COUNT_TARGET)
        analysis == AnalyzeContent(article_content)
        checks == MechanicalChecks(analysis, MinWordCount(word_count_target))
        mech_pass == \A c \in DOMAIN checks : checks[c]
        mech_issues == FailedChecks(checks)
    IN  IF LlmParsed(llm)
        THEN [passes_review |-> Get(llm.json, "passes_review", FALSE),
              cohesiveness_score |-> Get(llm.json, "cohesiveness_score", 0),
              issues |-> Get(llm.json, "issues", <<>>),
              feedback |-> Get(llm.json, "feedback", <<"No feedback provided.">>)]
        ELSE [passes_review |-> mech_pass,
              cohesiveness_score |->
                  IF mech_pass THEN FALLBACK_PASS_SCORE ELSE FALLBACK_FAIL_SCORE,
              issues |-> mech_issues,   \* each read as "<check> failed"
              feedback |-> <<"LLM evaluation unavailable. Mechanical checks:">>
                           \o (IF mech_issues # <<>> THEN mech_issues
                               ELSE <<"all passed">>)]

ForcedNote(max_revisions, r) ==
    <<[kind |-> "note", max_revisions |-> max_revisions,
       cohesiveness_score |-> r.cohesiveness_score,
       issues |-> r.issues, feedback |-> r.feedback]>>

SeoPreserved(s) ==
    [seo_title |-> Get(s, "seo_title", <<>>),
     tags |-> Get(s, "tags", <<>>)]

\* the three return statements of editor_node; forced is the test
\* "revision_count >= max_revisions" and next_count the value stored on
\* rejection
GateUpdate(s, r, forced, next_count) ==
    LET article_content ==
            OrText(Get(s, "formatted_content", <<>>), Get(s, "article_content", <<>>))
        max_revisions == Get(s, "max_revisions", DEFAULT_MAX_REVISIONS)
        common == Merge(SeoPreserved(s),
                        [quality_score |-> <<r.cohesiveness_score, 10>>])
    IN  IF r.passes_review
        THEN Merge(common,
                   [approval_status |-> "approved",
                    approval_feedback |-> <<>>,
                    final_content |-> article_content])
        ELSE IF forced
        THEN Merge(common,
                   [approval_status |-> "force_publish",
                    approval_feedback |-> r.feedback,
                    final_content |-> article_content,
                    forced_publish_note |-> ForcedNote(max_revisions, r),
                    warnings |-> Get(s, "warnings", <<>>)
                        \o <<"Article published with editorial issues">>])
        ELSE Merge(common,
                   [approval_status |-> "rejected",
                    approval_feedback |-> r.feedback,
                    revision_count |-> next_count])

\* mutant: force publish only once revision_count exceeds max_revisions
editor_node_strict(s, llm) ==
    LET revision_count == Get(s, "revision_count", 0)
        max_revisions == Get(s, "max_revisions", DEFAULT_MAX_REVISIONS)
    IN  GateUpdate(s, Review(s, llm), revision_count > max_revisions,
                   revision_count + 1)

\* mutant: a rejection stores the attempt total instead of adding one
editor_node_overcount(s, llm) ==
    LET revision_count == Get(s, "revision_count", 0)
        max_revisions == Get(s, "max_revisions", DEFAULT_MAX_REVISIONS)
    IN  GateUpdate(s, Review(s, llm), revision_count >= max_revisions,
                   revision_count + max_revisions + 2)

\* mutant: the fallback path records the failed judgment in errors, as the
\* except blocks of the other nodes do
editor_node_logsError(s, llm) ==
    LET revision_count == Get(s, "revision_count", 0)
        max_revisions == Get(s, "max_revisions", DEFAULT_MAX_REVISIONS)
        update == GateUpdate(s, Review(s, llm), revision_count >= max_revisions,
                             revision_count + 1)
    IN  IF LlmParsed(llm) THEN update
        ELSE Merge(update, [errors |-> Get(s, "errors", <<>>) \o <<"Editor error">>])

editor_node(s, llm) ==
    LET revision_count == Get(s, "revision_count", 0)
        max_revisions == Get(s, "max_revisions", DEFAULT_MAX_REVISIONS)
    IN  GateUpdate(s, Review(s, llm), revision_count >= max_revisions,
                   revision_count + 1)

----------------------------------------------------------------------------
(* Text and prompt templates                                               *)

\* A chunk "{" stands for a brace that str.format parsing rejects (a single
\* unbalanced brace); ChatPromptTemplate.from_messages parses its system
\* text as an f-string template and raises ValueError on such a text.
Unbalanced(text) == \E i \in 1..Len(text) : text[i] = "{"

\* text.replace("{", "{{").replace("}", "}}")
\* the chunk "{" is a brace str.format parsing rejects, the chunk "{x}" a
\* balanced pair that it reads as a template variable
EscapeBraces(text) ==
    [i \in 1..Len(text) |->
        IF text[i] = "{" THEN "{{"
        ELSE IF text[i] = "{x}" THEN "{{x}}"
        ELSE text[i]]

\* the prompt names a variable chain.invoke is not given
HasPlaceholder(text) == \E i \in 1..Len(text) : text[i] = "{x}"

ContentUnbalanced(content) ==
    \E i \in 1..Len(content) : content[i].kind = "article" /\ content[i].brace

----------------------------------------------------------------------------
(* Inputs and outcomes of the external capabilities (bounded)              *)

Topics == {<<>>, <<"Docker">>, <<"Docker", "{">>}
InstructionTexts == {<<>>, <<"For developers", "{">>}
TargetArgs == {0, 20}          \* 0: no --word-count given (None)

WriterOutputs ==
    {<<Article(wc, MIN_INLINE_LINKS, 1, NUM_SECTIONS, b)>> :
        wc \in {19, 3600}, b \in BOOLEAN}

ResearchPlans == {<<"plan", "{">>}

\* str(e) of what chain.invoke raised; API errors quote a JSON body
ResearchErrors == {<<"Connection error">>, <<"Error code: 529 - ", "{x}">>}

EditorAssessments ==
    {[passes_review |-> p, cohesiveness_score |-> 8, issues |-> <<"flow">>,
      feedback |-> f] : p \in BOOLEAN, f \in {<<>>, <<"Tighten the flow">>}}
    \cup {EmptyDict}

EditorLlmOutcomes ==
    {[kind |-> "raises"], [kind |-> "unparseable"]}
    \cup {[kind |-> "assessment", json |-> j] : j \in EditorAssessments}

----------------------------------------------------------------------------
(* graph.generate_blog_post: the initial state                             *)

initial_state(topic, instructions, word_count_target) ==
    [topic |-> topic,
     instructions |-> instructions,
     word_count_target |->
        IF word_count_target # 0 THEN word_count_target ELSE WORD_COUNT_TARGET,
     errors |-> <<>>,
     warnings |-> <<>>,
     approval_status |-> "pending",
     revision_count |-> 0,
     max_revisions |-> INITIAL_MAX_REVISIONS]

NotWritten == [written |-> FALSE, content |-> <<>>]
NoCall == [fn |-> "none"]

Init ==
    /\ pc = "START"
    /\ state = EmptyDict
    /\ trace = <<>>
    /\ output_file = NotWritten
    /\ post_data = NotWritten
    /\ exit_code = -1
    /\ call = NoCall
    /\ result = NoCall

----------------------------------------------------------------------------
(* main.main up to the call of generate_blog_post                          *)

Main(args_topic, typed_topic, instructions, word_count, config_valid) ==
    /\ pc = "START"
    /\ LET topic == IF args_topic # <<>> THEN args_topic ELSE typed_topic
       IN  IF topic = <<>> \/ ~config_valid
           THEN /\ pc' = "EXIT"
                /\ exit_code' = 1
                /\ state' = state
           ELSE /\ pc' = "research"
                /\ exit_code' = exit_code
                /\ state' = initial_state(topic, instructions, word_count)
    /\ UNCHANGED <<trace, output_file, post_data, call, result>>

\* a node raised: the exception leaves blog_graph.invoke and
\* generate_blog_post, no update is merged
Raise(node) ==
    /\ pc' = "RAISED"
    /\ trace' = Append(trace, node)
    /\ UNCHANGED <<state, output_file, post_data, exit_code, call, result>>

\* a node returned: its update is merged and the edge is followed
Step(node, update, next) ==
    /\ state' = Merge(state, update)
    /\ pc' = next
    /\ trace' = Append(trace, node)
    /\ UNCHANGED <<output_file, post_data, exit_code, call, result>>


----------------------------------------------------------------------------
(* nodes.research._standard_research (initial_state carries no             *)
(* deep_research_enabled key, so research_node takes the standard pass)    *)

ResearchPromptRaises(s) ==
    Unbalanced(s["topic"]) \/ Unbalanced(Get(s, "instructions", <<>>))

research_ok(plan) ==
    [research_summary |-> EscapeBraces(plan)]

research_failed(s, message) ==
    [research_summary |-> <<"Research encountered an error: ">> \o message,
     errors |-> Get(s, "errors", <<>>) \o <<"Research error">>]

Research ==
    /\ pc = "research"
    /\ \/ /\ ResearchPromptRaises(state)
          /\ Raise("research")
       \/ /\ ~ResearchPromptRaises(state)
          /\ \/ \E plan \in ResearchPlans :
                    Step("research", research_ok(plan), "writer")
             \/ \E message \in ResearchErrors :
                    Step("research", research_failed(state, message), "writer")

----------------------------------------------------------------------------
(* nodes.writer.writer_node                                                *)

IsRevision(s) ==
    Get(s, "revision_count", 0) > 0 /\ Get(s, "approval_feedback", <<>>) # <<>>

WriterPromptRaises(s) ==
    IF IsRevision(s)
    THEN Unbalanced(s["topic"])
    ELSE \/ Unbalanced(s["topic"])
         \/ Unbalanced(Get(s, "instructions", <<>>))
         \/ Unbalanced(Get(s, "research_summary", <<>>))

\* the initial prompt embeds research_summary as it is stored: a template
\* variable in it makes chain.invoke raise inside the try
WriterInvokeRaises(s) ==
    ~IsRevision(s) /\ HasPlaceholder(Get(s, "research_summary", <<>>))

writer_ok(content) ==
    [article_content |-> content, article_title |-> <<"title">>]

\* mutant: the except block starts a fresh errors list
writer_failed_overwrite(s, message) ==
    [article_content |-> <<>>, article_title |-> s["topic"],
     errors |-> <<message>>]

writer_failed(s, message) ==
    [article_content |-> <<>>, article_title |-> s["topic"],
     errors |-> Get(s, "errors", <<>>) \o <<message>>]

Writer ==
    /\ pc = "writer"
    /\ IF IsRevision(state) /\ Get(state, "article_content", <<>>) = <<>>
       THEN Step("writer",
                 writer_failed(state, "No article content available for revision"),
                 "formatter")
       ELSE \/ /\ WriterPromptRaises(state)
               /\ Raise("writer")
            \/ /\ ~WriterPromptRaises(state)
               /\ \/ /\ ~WriterInvokeRaises(state)
                     /\ \E content \in WriterOutputs :
                           Step("writer", writer_ok(content), "formatter")
                  \/ Step("writer",
                          writer_failed(state,
                              IF IsRevision(state) THEN "Revision error"
                              ELSE "Writing error"),
                          "formatter")

----------------------------------------------------------------------------
(* nodes.formatter.formatter_node                                          *)

INCLUDE_TABLE_OF_CONTENTS == TRUE
TOC_MIN_SECTIONS == 3

\* generate_table_of_contents / insert_table_of_contents: with at least
\* TOC_MIN_SECTIONS "## " headings a "## Table of Contents" heading and one
\* markdown link per heading are inserted
WithTableOfContents(content) ==
    IF content # <<>> /\ INCLUDE_TABLE_OF_CONTENTS
       /\ content[1].h2 >= TOC_MIN_SECTIONS
    THEN <<[content[1] EXCEPT !.h2 = @ + 1, !.links = @ + content[1].h2]>>
    ELSE content

\* what the formatting chain may return for an article: the article itself
\* or nothing
FormatterOutputs(content) == {content, <<>>}

formatter_ok(llm_output) ==
    [formatted_content |-> WithTableOfContents(llm_output)]

formatter_failed(s) ==
    [formatted_content |-> Get(s, "article_content", <<>>),
     errors |-> Get(s, "errors", <<>>) \o <<"Formatting error">>]

Formatter ==
    /\ pc = "formatter"
    /\ \/ \E out \in FormatterOutputs(Get(state, "article_content", <<>>)) :
              Step("formatter", formatter_ok(out), "seo")
       \/ Step("formatter", formatter_failed(state), "seo")

----------------------------------------------------------------------------
(* nodes.seo.seo_node                                                      *)

\* the SEO prompt embeds instructions and article_content unescaped
SeoPromptRaises(s) ==
    \/ Unbalanced(Get(s, "instructions", <<>>))
    \/ ContentUnbalanced(Get(s, "article_content", <<>>))

seo_ok == [seo_title |-> <<"seo title">>, tags |-> <<"tag">>]

seo_failed(s) ==
    [seo_title |-> Get(s, "article_title", <<>>),
     tags |-> <<"blog", "auto-generated">>,
     errors |-> Get(s, "errors", <<>>) \o <<"SEO error">>]

Seo ==
    /\ pc = "seo"
    /\ \/ /\ SeoPromptRaises(state)
          /\ Raise("seo")
       \/ /\ ~SeoPromptRaises(state)
          /\ \/ Step("seo", seo_ok, "editor")
             \/ Step("seo", seo_failed(state), "editor")

----------------------------------------------------------------------------
(* the editor node and the conditional edge that follows it                *)

EditorPromptRaises(s) == Unbalanced(Get(s, "instructions", <<>>))

Editor ==
    /\ pc = "editor"
    /\ \/ /\ EditorPromptRaises(state)
          /\ Raise("editor")
       \/ /\ ~EditorPromptRaises(state)
          /\ \E llm \in EditorLlmOutcomes :
                LET update == editor_node(state, llm)
                IN  Step("editor", update,
                         route_editor_decision(Merge(state, update)))

----------------------------------------------------------------------------
(* nodes.publisher.publisher_node                                          *)

\* re.sub(r'^#\s+.+?(?:\n\n|\n(?=#))', '', content, count=1): the first
\* "# " heading is taken out of the text
RemoveTitle(content) ==
    LET HasTitle(i) == content[i].kind = "article" /\ content[i].h1 > 0
        first == IF \E i \in 1..Len(content) : HasTitle(i)
                 THEN CHOOSE i \in 1..Len(content) :
                        HasTitle(i) /\ \A j \in 1..(i - 1) : ~HasTitle(j)
                 ELSE 0
    IN  [i \in 1..Len(content) |->
            IF i = first THEN [content[i] EXCEPT !.h1 = @ - 1] ELSE content[i]]

ContentToPublish(s) ==
    LET final_content == Get(s, "final_content", <<>>)
        forced_publish_note == Get(s, "forced_publish_note", <<>>)
    IN  IF forced_publish_note # <<>>
        THEN forced_publish_note \o final_content
        ELSE final_content

publisher_ok ==
    [publication_status |-> "draft"]

publisher_failed(s, message) ==
    [publication_status |-> "failed",
     errors |-> Get(s, "errors", <<>>) \o <<message>>]

Publisher ==
    /\ pc = "publisher"
    /\ \E saved \in BOOLEAN :
          output_file' = IF saved
                         THEN [written |-> TRUE, content |-> ContentToPublish(state)]
                         ELSE output_file
    /\ post_data' = [written |-> TRUE,
                     content |-> RemoveTitle(ContentToPublish(state))]
    /\ \E update \in {publisher_ok,
                      publisher_failed(state, "Publication error"),
                      publisher_failed(state, "Publisher exception")} :
          state' = Merge(state, update)
    /\ pc' = "END"
    /\ trace' = Append(trace, "publisher")
    /\ UNCHANGED <<exit_code, call, result>>

----------------------------------------------------------------------------
(* main.main after generate_blog_post returned or raised                   *)

\* mutant: only a fatal error gives a non-zero code
MainReturn_ignoreErrors ==
    /\ pc \in {"END", "RAISED"}
    /\ exit_code' = IF pc = "RAISED" THEN 1 ELSE 0
    /\ pc' = "EXIT"
    /\ UNCHANGED <<state, trace, output_file, post_data, call, result>>

MainReturn ==
    /\ pc \in {"END", "RAISED"}
    /\ exit_code' = IF pc = "RAISED" \/ Get(state, "errors", <<>>) # <<>>
                    THEN 1 ELSE 0
    /\ pc' = "EXIT"
    /\ UNCHANGED <<state, trace, output_file, post_data, call, result>>

Next ==
    \/ \E a \in Topics, t \in Topics, i \in InstructionTexts,
          w \in TargetArgs, c \in BOOLEAN : Main(a, t, i, w, c)
    \/ Research
    \/ Writer
    \/ Formatter
    \/ Seo
    \/ Editor
    \/ Publisher
    \/ MainReturn

Spec == Init /\ [][Next]_vars


----------------------------------------------------------------------------
(* Direct calls of the pure functions on arbitrary (bounded) states        *)

Restrict(d, keys) == [k \in keys |-> d[k]]

RouteStatuses == {"pending", "approved", "rejected", "force_publish", "other"}

RouteStates ==
    {Restrict(full, keys) :
        full \in [approval_status : RouteStatuses,
                  revision_count : 0..MaxRevCount,
                  max_revisions : 0..MaxRevCount],
        keys \in SUBSET {"approval_status", "revision_count", "max_revisions"}}

InitRoute ==
    /\ pc = "CALL"
    /\ call \in {[fn |-> "route_editor_decision", state |-> s] : s \in RouteStates}
    /\ state = call.state
    /\ trace = <<>>
    /\ output_file = NotWritten
    /\ post_data = NotWritten
    /\ exit_code = -1
    /\ result = NoCall

\* route_editor_decision only reads the dict (three .get calls)
RouteCall ==
    /\ pc = "CALL"
    /\ call.fn = "route_editor_decision"
    /\ result' = [fn |-> call.fn, value |-> route_editor_decision(state)]
    /\ pc' = "RETURNED"
    /\ UNCHANGED <<state, trace, output_file, post_data, exit_code, call>>

NextRoute == RouteCall

SpecRoute == InitRoute /\ [][NextRoute]_vars

GateWordCounts == (0..MaxWords) \cup {3324, 3325, 3600}
GateTargets == 1..MaxTarget

\* every heading line holds at least the word "#" or "##" and a text with a
\* link holds at least one word
Realizable(a) ==
    a.wc >= a.h1 + a.h2 + (IF a.links > 0 THEN 1 ELSE 0)

GateArticles ==
    {<<>>} \cup
    {<<a>> : a \in
        {x \in {Article(wc, links, h1, h2, FALSE) :
                    wc \in GateWordCounts,
                    links \in {MIN_INLINE_LINKS - 1, MIN_INLINE_LINKS + 2},
                    h1 \in 0..2,
                    h2 \in {NUM_SECTIONS - 1, NUM_SECTIONS + 1}} :
            Realizable(x)}}

GateBase ==
    {[formatted_content |-> a, revision_count |-> rc, max_revisions |-> mr,
      warnings |-> <<"earlier warning">>, errors |-> <<"earlier error">>] :
        a \in GateArticles, rc \in 0..MaxRevCount, mr \in {0, INITIAL_MAX_REVISIONS}}

GateStates ==
    GateBase \cup
    {Merge(g, [word_count_target |-> t]) : g \in GateBase, t \in GateTargets}

GateLlmOutcomes ==
    {[kind |-> "raises"], [kind |-> "unparseable"],
     [kind |-> "assessment", json |-> EmptyDict]}
    \cup {[kind |-> "assessment",
           json |-> [passes_review |-> p, cohesiveness_score |-> c,
                     issues |-> <<"flow">>, feedback |-> <<"Tighten the flow">>]] :
            p \in BOOLEAN, c \in {8}}

InitGate ==
    /\ pc = "CALL"
    /\ call \in {[fn |-> "editor_node", state |-> s, llm |-> o] :
                    s \in GateStates, o \in GateLlmOutcomes}
    /\ state = call.state
    /\ trace = <<>>
    /\ output_file = NotWritten
    /\ post_data = NotWritten
    /\ exit_code = -1
    /\ result = NoCall

\* editor_node returns a partial update, which the graph merges
GateCall ==
    /\ pc = "CALL"
    /\ call.fn = "editor_node"
    /\ LET update == editor_node(state, call.llm)
       IN  /\ result' = [fn |-> call.fn, value |-> update]
           /\ state' = Merge(state, update)
    /\ pc' = "RETURNED"
    /\ UNCHANGED <<trace, output_file, post_data, exit_code, call>>

NextGate == GateCall

SpecGate == InitGate /\ [][NextGate]_vars


----------------------------------------------------------------------------
(* tools.link_validator.LinkValidatorTool                                  *)
(* Strings that are parsed or formatted are sequences of characters; a     *)
(* value that may be None is << >> for None and <<v>> for v.               *)

None == <<>>
Some(v) == <<v>>

DigitChars == <<"0", "1", "2", "3", "4", "5", "6", "7", "8", "9">>

IsDigit(c) == \E d \in 1..10 : DigitChars[d] = c

DigitValue(c) == (CHOOSE d \in 1..10 : DigitChars[d] = c) - 1

IsSpace(c) == c \in {" ", "\n"}

RECURSIVE LStrip(_)
LStrip(s) == IF s # <<>> /\ IsSpace(Head(s)) THEN LStrip(Tail(s)) ELSE s

RECURSIVE RStrip(_)
RStrip(s) ==
    IF s # <<>> /\ IsSpace(s[Len(s)]) THEN RStrip(SubSeq(s, 1, Len(s) - 1)) ELSE s

\* str.strip()
strip(s) == RStrip(LStrip(s))

\* int(text) succeeds on a non-empty run of decimal digits
IsNumeral(s) == s # <<>> /\ \A i \in 1..Len(s) : IsDigit(s[i])

RECURSIVE ParseInt(_)
ParseInt(s) ==
    IF s = <<>> THEN 0
    ELSE 10 * ParseInt(SubSeq(s, 1, Len(s) - 1)) + DigitValue(s[Len(s)])

\* str(n) as the f-string "HTTP {status_code}" formats it
RECURSIVE IntToStr(_)
IntToStr(n) ==
    IF n < 10 THEN <<DigitChars[n + 1]>>
    ELSE IntToStr(n \div 10) \o <<DigitChars[(n % 10) + 1]>>

UrlResult(url, is_valid, status_code, error) ==
    [url |-> url, is_valid |-> is_valid, status_code |-> status_code,
     error |-> error]

\* mutant: the validity test loses its lower bound
validate_url_noLowerBound(url, probe) ==
    IF probe.kind = "timeout"
    THEN UrlResult(url, FALSE, None, Some(<<"Timeout">>))
    ELSE IF probe.kind = "raises"
    THEN UrlResult(url, FALSE, None, Some(probe.message))
    ELSE IF probe.returncode = 0 /\ probe.stdout # <<>>
    THEN IF ~IsNumeral(strip(probe.stdout))
         THEN UrlResult(url, FALSE, None,
                        Some(<<"invalid literal for int() with base 10: ">>
                             \o strip(probe.stdout)))
         ELSE LET status_code == ParseInt(strip(probe.stdout))
                  is_valid == status_code < 400
              IN  UrlResult(url, is_valid, Some(status_code),
                            IF is_valid THEN None
                            ELSE Some(<<"HTTP ">> \o IntToStr(status_code)))
    ELSE UrlResult(url, FALSE, None, Some(<<"Connection failed or timeout">>))

\* probe is what subprocess.run did: returned (returncode, stdout), raised
\* TimeoutExpired, or raised something else
validate_url(url, probe) ==
    IF probe.kind = "timeout"
    THEN UrlResult(url, FALSE, None, Some(<<"Timeout">>))
    ELSE IF probe.kind = "raises"
    THEN UrlResult(url, FALSE, None, Some(probe.message))
    ELSE IF probe.returncode = 0 /\ probe.stdout # <<>>
    THEN IF ~IsNumeral(strip(probe.stdout))
         THEN UrlResult(url, FALSE, None,
                        Some(<<"invalid literal for int() with base 10: ">>
                             \o strip(probe.stdout)))
         ELSE LET status_code == ParseInt(strip(probe.stdout))
                  is_valid == 200 <= status_code /\ status_code < 400
              IN  UrlResult(url, is_valid, Some(status_code),
                            IF is_valid THEN None
                            ELSE Some(<<"HTTP ">> \o IntToStr(status_code)))
    ELSE UrlResult(url, FALSE, None, Some(<<"Connection failed or timeout">>))

\* the for loop of validate_urls; probes[idx] is the outcome of the idx-th
\* probe
RECURSIVE ValidateLoop(_, _, _, _, _)
ValidateLoop(urls, probes, idx, valid_urls, validation_results) ==
    IF idx > Len(urls)
    THEN [valid_urls |-> valid_urls, validation_results |-> validation_results]
    ELSE LET r == validate_url(urls[idx], probes[idx])
         IN  ValidateLoop(urls, probes, idx + 1,
                          IF r.is_valid THEN Append(valid_urls, urls[idx])
                          ELSE valid_urls,
                          Append(validation_results, r))

\* mutant: a URL already accepted is not appended again
RECURSIVE ValidateLoopDedup(_, _, _, _, _)
ValidateLoopDedup(urls, probes, idx, valid_urls, validation_results) ==
    IF idx > Len(urls)
    THEN [valid_urls |-> valid_urls, validation_results |-> validation_results]
    ELSE LET r == validate_url(urls[idx], probes[idx])
             seen == \E j \in 1..Len(valid_urls) : valid_urls[j] = urls[idx]
         IN  ValidateLoopDedup(urls, probes, idx + 1,
                          IF r.is_valid /\ ~seen THEN Append(valid_urls, urls[idx])
                          ELSE valid_urls,
                          Append(validation_results, r))

validate_urls_dedup(urls, probes) ==
    IF urls = <<>>
    THEN [valid_urls |-> <<>>, validation_results |-> <<>>]
    ELSE ValidateLoopDedup(urls, probes, 1, <<>>, <<>>)

validate_urls(urls, probes) ==
    IF urls = <<>>
    THEN [valid_urls |-> <<>>, validation_results |-> <<>>]
    ELSE ValidateLoop(urls, probes, 1, <<>>, <<>>)

\* result.get("error") or f"HTTP {result.get('status_code')}"
ErrorLabel(r) ==
    IF r.error # None /\ r.error[1] # <<>>
    THEN r.error[1]
    ELSE <<"HTTP ">> \o (IF r.status_code = None THEN <<"None">>
                         ELSE IntToStr(r.status_code[1]))

\* the loop that fills error_types
RECURSIVE CountErrors(_, _, _)
CountErrors(results, idx, error_types) ==
    IF idx > Len(results) THEN error_types
    ELSE LET r == results[idx]
             error == ErrorLabel(r)
         IN  CountErrors(results, idx + 1,
                 IF ~r.is_valid
                 THEN Merge(error_types, (error :> (Get(error_types, error, 0) + 1)))
                 ELSE error_types)

RECURSIVE CountAllLabels(_, _, _)
CountAllLabels(results, idx, error_types) ==
    IF idx > Len(results) THEN error_types
    ELSE LET error == ErrorLabel(results[idx])
         IN  CountAllLabels(results, idx + 1,
                 Merge(error_types, (error :> (Get(error_types, error, 0) + 1))))

\* mutant: the "if not result['is_valid']" filter is dropped
get_validation_summary_allResults(validation_results) ==
    LET total == Len(validation_results)
        valid == Cardinality({i \in 1..total : validation_results[i].is_valid})
    IN  [total_urls |-> total,
         valid_urls |-> valid,
         invalid_urls |-> total - valid,
         success_rate |-> IF total > 0 THEN <<valid * 100, total>> ELSE <<0, 1>>,
         error_breakdown |-> CountAllLabels(validation_results, 1, EmptyDict)]

\* valid / total * 100 is kept exact, as <<numerator, denominator>>
get_validation_summary(validation_results) ==
    LET total == Len(validation_results)
        valid == Cardinality({i \in 1..total : validation_results[i].is_valid})
    IN  [total_urls |-> total,
         valid_urls |-> valid,
         invalid_urls |-> total - valid,
         success_rate |-> IF total > 0 THEN <<valid * 100, total>> ELSE <<0, 1>>,
         error_breakdown |-> CountErrors(validation_results, 1, EmptyDict)]

----------------------------------------------------------------------------
(* Direct calls of LinkValidatorTool                                       *)

MaxUrls == 4

UrlNames == {"https://a.example", "https://b.example"}

\* one outcome of subprocess.run(['curl', ...])
Probe(kind, returncode, stdout, message) ==
    [kind |-> kind, returncode |-> returncode, stdout |-> stdout,
     message |-> message]

Exit(returncode, stdout) == Probe("exit", returncode, stdout, <<>>)

\* what curl -w "%{http_code}" can print, and stdout that is not a number
ProbeStdouts ==
    {<<>>, <<"2", "0", "0">>, <<"2", "0", "0", "\n">>, <<"1", "9", "9">>,
     <<"3", "9", "9">>, <<"4", "0", "0">>, <<"4", "0", "4">>, <<"5", "0", "3">>,
     <<"0", "0", "0">>, <<"x">>}

Timeout == Probe("timeout", 0, <<>>, <<>>)

Raises(message) == Probe("raises", 0, <<>>, message)

SingleProbes ==
    {Exit(rc, out) : rc \in {0, 7}, out \in ProbeStdouts}
        \cup {Timeout, Raises(<<"No such file: curl">>), Raises(<<>>)}

BatchProbes ==
    {Exit(0, <<"2", "0", "0">>), Exit(0, <<"4", "0", "4">>),
     Exit(7, <<"0", "0", "0">>), Timeout, Raises(<<>>)}

InitLinks ==
    /\ pc = "CALL"
    /\ \/ call \in {[fn |-> "validate_url", url |-> u, probe |-> p] :
                       u \in UrlNames, p \in SingleProbes}
       \/ \E k \in 0..MaxUrls :
             call \in {[fn |-> "validate_urls", urls |-> us, probes |-> ps] :
                          us \in [1..k -> UrlNames], ps \in [1..k -> BatchProbes]}
    /\ state = EmptyDict
    /\ trace = <<>>
    /\ output_file = NotWritten
    /\ post_data = NotWritten
    /\ exit_code = -1
    /\ result = NoCall

ValidateUrlCall ==
    /\ pc = "CALL"
    /\ call.fn = "validate_url"
    /\ result' = [fn |-> call.fn, value |-> validate_url(call.url, call.probe)]
    /\ pc' = "RETURNED"
    /\ UNCHANGED <<state, trace, output_file, post_data, exit_code, call>>

ValidateUrlsCall ==
    /\ pc = "CALL"
    /\ call.fn = "validate_urls"
    /\ result' = [fn |-> call.fn, value |-> validate_urls(call.urls, call.probes)]
    /\ pc' = "VALIDATED"
    /\ UNCHANGED <<state, trace, output_file, post_data, exit_code, call>>

\* the caller hands the batch's results to get_validation_summary
SummaryCall ==
    /\ pc = "VALIDATED"
    /\ result' = [fn |-> "get_validation_summary",
                  results |-> result.value.validation_results,
                  value |-> get_validation_summary(result.value.validation_results)]
    /\ pc' = "SUMMARIZED"
    /\ UNCHANGED <<state, trace, output_file, post_data, exit_code, call>>

NextLinks == ValidateUrlCall \/ ValidateUrlsCall \/ SummaryCall

SpecLinks == InitLinks /\ [][NextLinks]_vars


----------------------------------------------------------------------------
(* tools.query_generator.QueryGeneratorTool                                *)
(* A reply of the LLM is a sequence of lines; a line is a sequence of      *)
(* chunks in which " " is whitespace and "#" a hash sign.                  *)

Min(a, b) == IF a <= b THEN a ELSE b

\* Python slice seq[:n]
Take(seq, n) == SubSeq(seq, 1, Min(n, Len(seq)))

StartsWithHash(q) == q # <<>> /\ Head(q) = "#"

Returned(value) == [raised |-> FALSE, value |-> value]

Raised == [raised |-> TRUE, value |-> <<>>]

\* chain.invoke raises or returns text; the text is split into lines, each
\* stripped, empty lines and lines starting with '#' dropped, and the first
\* num_queries kept
generate_queries(topic, instructions, num_queries, llm) ==
    IF llm.kind = "raises" THEN Raised
    ELSE LET stripped == [i \in 1..Len(llm.lines) |-> strip(llm.lines[i])]
             queries == SelectSeq(stripped,
                                  LAMBDA q : q # <<>> /\ ~StartsWithHash(q))
         IN  Returned(Take(queries, num_queries))

----------------------------------------------------------------------------
(* tools.url_fetcher.URLFetcherTool                                        *)

UrlPool ==
    <<"https://s1.example", "https://s2.example", "https://s3.example",
      "https://s4.example", "https://s5.example", "https://s6.example",
      "https://s7.example", "https://s8.example", "https://s9.example">>

AllUrls == {UrlPool[i] : i \in 1..Len(UrlPool)}

\* the de-duplicating loop of extract_urls_from_text
RECURSIVE UniqueLoop(_, _, _)
UniqueLoop(urls, idx, unique_urls) ==
    IF idx > Len(urls) THEN unique_urls
    ELSE UniqueLoop(urls, idx + 1,
            IF \E j \in 1..Len(unique_urls) : unique_urls[j] = urls[idx]
            THEN unique_urls
            ELSE Append(unique_urls, urls[idx]))

\* re.findall over the text, then de-duplication in order of appearance
extract_urls_from_text(text) ==
    UniqueLoop(SelectSeq(text, LAMBDA c : c \in AllUrls), 1, <<>>)

\* one outcome of subprocess.run: kind is "exit" when the process completed,
\* else the name of the exception subprocess.run raised
Exited(returncode, stdout) ==
    [kind |-> "exit", returncode |-> returncode, stdout |-> stdout]

Threw(exception) == [kind |-> exception, returncode |-> 0, stdout |-> <<>>]

GithubRepoUrl == "https://github.com/owner/repo"
GithubUserUrl == "https://www.github.com/owner"
MalformedUrl == "http://[bad"

\* urllib.parse.urlparse on the URLs of the model: the netloc and
\* path.strip('/').split('/'); a malformed netloc raises ValueError
urlparse(url) ==
    CASE url = MalformedUrl ->
             [raised |-> TRUE, netloc |-> "", path_parts |-> <<>>]
      [] url = GithubRepoUrl ->
             [raised |-> FALSE, netloc |-> "github.com",
              path_parts |-> <<"owner", "repo">>]
      [] url = GithubUserUrl ->
             [raised |-> FALSE, netloc |-> "www.github.com",
              path_parts |-> <<"owner">>]
      [] OTHER ->
             [raised |-> FALSE, netloc |-> "example", path_parts |-> <<"">>]

is_github_url(url) == urlparse(url).netloc \in {"github.com", "www.github.com"}

\* chunks the regular expressions delete: tags, scripts, styles, comments
Markup == {"<p>", "</p>", "<script>app()</script>", "<!-- c -->"}

\* what is left of the page once the markup is removed
extract_text_from_html(html) == SelectSeq(html, LAMBDA c : c \notin Markup)

FetchRecord(url, content, type, error) ==
    [url |-> url, content |-> content, type |-> type, error |-> error]

\* mutant: the failure branch reports no error
fetch_web_content_silent(url, curl) ==
    IF curl.kind # "exit"
    THEN FetchRecord(url, <<>>, "web_error", Some(<<curl.kind>>))
    ELSE IF curl.returncode = 0 /\ curl.stdout # <<>>
         THEN FetchRecord(url, extract_text_from_html(curl.stdout), "web", None)
         ELSE FetchRecord(url, <<>>, "web_error", None)

\* curl is the outcome of subprocess.run(['curl', '-L', '-s', ...]); an
\* exception of it is caught and reported as str(e)
fetch_web_content(url, curl) ==
    IF curl.kind # "exit"
    THEN FetchRecord(url, <<>>, "web_error", Some(<<curl.kind>>))
    ELSE IF curl.returncode = 0 /\ curl.stdout # <<>>
         THEN FetchRecord(url, extract_text_from_html(curl.stdout), "web", None)
         ELSE FetchRecord(url, <<>>, "web_error",
                          Some(<<"Failed to fetch: HTTP error or timeout">>))

\* the exceptions the inner except clause turns into the web fallback
GhUnavailable == {"TimeoutExpired", "FileNotFoundError", "JSONDecodeError"}

JsonObjectText == <<"{\"name\": \"repo\"}">>
JsonArrayText == <<"[]">>

\* the type of what json.loads returns, "invalid" when it raises
\* JSONDecodeError
json_loads(stdout) ==
    IF stdout = JsonObjectText THEN "object"
    ELSE IF stdout = JsonArrayText THEN "array"
    ELSE "invalid"

\* the first exception raised inside the inner try, "none" when it runs to
\* the return or falls through; env.repo, env.readme and env.tree are the
\* outcomes of the three gh calls
GhException(env) ==
    IF env.repo.kind # "exit" THEN env.repo.kind
    ELSE IF env.repo.returncode # 0 THEN "none"
    ELSE IF json_loads(env.repo.stdout) = "invalid" THEN "JSONDecodeError"
    ELSE IF env.readme.kind # "exit" THEN env.readme.kind
    ELSE IF env.tree.kind # "exit" THEN env.tree.kind
    ELSE IF env.tree.returncode = 0 /\ json_loads(env.tree.stdout) = "invalid"
         THEN "JSONDecodeError"
    ELSE IF env.tree.returncode = 0 /\ json_loads(env.tree.stdout) = "array"
         THEN "AttributeError"
    ELSE IF json_loads(env.repo.stdout) = "array" THEN "AttributeError"
    ELSE "none"

\* the text built from the repository metadata, the README and the tree
GithubContent(env) ==
    <<"# GitHub Repository: ", "repo", "## README Content:">>
        \o (IF env.readme.returncode = 0 THEN env.readme.stdout
            ELSE <<"No README available">>)
        \o (IF env.tree.returncode = 0
            THEN <<"### Repository Structure:">> ELSE <<>>)

fetch_github_content(url, env) ==
    LET path_parts == urlparse(url).path_parts
        e == GhException(env)
    IN  IF Len(path_parts) < 2 THEN fetch_web_content(url, env.curl)
        ELSE IF e = "none" /\ env.repo.returncode = 0
             THEN FetchRecord(url, GithubContent(env), "github", None)
        ELSE IF e = "none" \/ e \in GhUnavailable
             THEN fetch_web_content(url, env.curl)
        ELSE FetchRecord(url, <<>>, "github_error", Some(<<e>>))

\* env holds the outcomes of the subprocesses the call would run
fetch_url_content(url, env) ==
    IF urlparse(url).raised
    THEN FetchRecord(url, <<>>, "error", Some(<<"Invalid IPv6 URL">>))
    ELSE IF is_github_url(url) THEN fetch_github_content(url, env)
    ELSE fetch_web_content(url, env.curl)

FetchEnv(repo, readme, tree, curl) ==
    [repo |-> repo, readme |-> readme, tree |-> tree, curl |-> curl]

\* fetchable is the set of URLs whose page curl can retrieve at this moment;
\* gh is not run for them
WebEnv(url, fetchable) ==
    FetchEnv(Exited(0, <<>>), Exited(0, <<>>), Exited(0, <<>>),
             IF url \in fetchable
             THEN Exited(0, <<"<p>", "page text", "</p>">>)
             ELSE Exited(22, <<>>))

\* the probes validate_urls runs when the URLs in valid answer 200 and the
\* others 404
ProbesFor(urls, valid) ==
    [i \in 1..Len(urls) |->
        IF urls[i] \in valid THEN Exit(0, <<"2", "0", "0">>)
        ELSE Exit(0, <<"4", "0", "4">>)]

----------------------------------------------------------------------------
(* tools.content_synthesizer.ContentSynthesisTool                          *)
(* A reply is [kind, fence, body]: kind "raises" when chain.invoke raised; *)
(* fence is "none" for bare text, else the tag of the markdown code block  *)
(* around it; body.type is what json.loads makes of the text between *)
(* the markers ("object", "array", or "prose" when it is not JSON).        *)

\* text left after the code-block markers are removed: a "json" tag is cut
\* off, any other tag stays in front of the body and breaks the JSON
CleanBody(reply) ==
    IF reply.fence \in {"none", "untagged", "json"} THEN reply.body
    ELSE [type |-> "prose", value |-> EmptyDict]

SynthRaised == [raised |-> TRUE, type |-> "none", value |-> EmptyDict]

Urls(fetched_contents) ==
    [i \in 1..Len(fetched_contents) |-> fetched_contents[i].url]

DegradedSynthesis(fetched_contents) ==
    [summary |-> <<"Synthesis failed - see raw research">>,
     key_facts |-> <<>>,
     quotes |-> <<>>,
     themes |-> <<>>,
     sources_by_priority |-> Urls(fetched_contents)]

\* mutant: json.loads is not guarded, the JSONDecodeError leaves the tool
synthesize_content_noCatch(topic, fetched_contents, reply) ==
    IF reply.kind = "raises" THEN SynthRaised
    ELSE LET result_clean == CleanBody(reply)
         IN  IF result_clean.type = "prose" THEN SynthRaised
             ELSE [raised |-> FALSE, type |-> result_clean.type,
                   value |-> result_clean.value]

\* returns whatever json.loads produced, or the minimal structure on
\* JSONDecodeError; an exception of chain.invoke is not caught here
synthesize_content(topic, fetched_contents, reply) ==
    IF reply.kind = "raises" THEN SynthRaised
    ELSE LET result_clean == CleanBody(reply)
         IN  IF result_clean.type = "prose"
             THEN [raised |-> FALSE, type |-> "object",
                   value |-> DegradedSynthesis(fetched_contents)]
             ELSE [raised |-> FALSE, type |-> result_clean.type,
                   value |-> result_clean.value]

----------------------------------------------------------------------------
(* nodes.research._deep_research                                           *)
(* cfg holds Config.DEEP_RESEARCH_QUERIES, DEEP_RESEARCH_URLS_PER_QUERY    *)
(* and DEEP_RESEARCH_MAX_URLS_TOTAL.  The fetch record is                  *)
(* [all_fetched_urls, fetches]: fetches logs, for every fetch issued, how  *)
(* many sources had been fetched before it.                                *)

\* mutant: the result is appended whatever its content
FetchOne_keepEmpty(url, fetchable, f) ==
    LET r == fetch_url_content(url, WebEnv(url, fetchable))
    IN  [all_fetched_urls |-> Append(f.all_fetched_urls, r),
         fetches |-> Append(f.fetches, Len(f.all_fetched_urls))]

\* one call of fetch_url_content and the "if result.get('content')" append
FetchOne(url, fetchable, f) ==
    LET r == fetch_url_content(url, WebEnv(url, fetchable))
    IN  [all_fetched_urls |-> IF r.content # <<>>
                              THEN Append(f.all_fetched_urls, r)
                              ELSE f.all_fetched_urls,
         fetches |-> Append(f.fetches, Len(f.all_fetched_urls))]

\* STEP 1: the loop over the valid priority URLs
RECURSIVE FetchPriority(_, _, _, _)
FetchPriority(urls, idx, fetchable, f) ==
    IF idx > Len(urls) THEN f
    ELSE FetchPriority(urls, idx + 1, fetchable, FetchOne(urls[idx], fetchable, f))

PriorityStep(instructions, valid, fetchable, f) ==
    LET instruction_urls == extract_urls_from_text(instructions)
        valid_instruction_urls ==
            validate_urls(instruction_urls,
                          ProbesFor(instruction_urls, valid)).valid_urls
    IN  FetchPriority(valid_instruction_urls, 1, fetchable, f)

\* mutant: the templates in the order the standard pass lists them
FallbackQueries_standardOrder(topic) ==
    <<topic,
      topic \o <<" latest developments">>,
      topic \o <<" best practices">>,
      topic \o <<" use cases">>>>

\* the hardcoded queries of the except block
FallbackQueries(topic) ==
    <<topic,
      topic \o <<" best practices">>,
      topic \o <<" use cases">>,
      topic \o <<" latest developments">>>>

\* STEP 2
QueriesStep(topic, instructions, cfg, llm) ==
    LET r == generate_queries(topic, instructions, cfg.DEEP_RESEARCH_QUERIES, llm)
    IN  IF r.raised THEN FallbackQueries(topic) ELSE r.value

\* mutant: the limit test lets one more source through
CapReached_strict(all_fetched_urls, cfg) ==
    Len(all_fetched_urls) > cfg.DEEP_RESEARCH_MAX_URLS_TOTAL

CapReached(all_fetched_urls, cfg) ==
    Len(all_fetched_urls) >= cfg.DEEP_RESEARCH_MAX_URLS_TOTAL

\* the loop over urls_to_fetch, left by break once the limit is reached
RECURSIVE FetchCapped(_, _, _, _, _)
FetchCapped(urls, idx, fetchable, cfg, f) ==
    IF idx > Len(urls) \/ CapReached(f.all_fetched_urls, cfg) THEN f
    ELSE FetchCapped(urls, idx + 1, fetchable, cfg,
                     FetchOne(urls[idx], fetchable, f))

\* STEP 3, one iteration of the loop over the queries; search is what
\* search_tool._run and json.loads made of the query
SearchStep(search, cfg, f) ==
    IF search.kind = "raises" THEN f
    ELSE LET top == Take(search.results, cfg.DEEP_RESEARCH_URLS_PER_QUERY * 2)
             candidate_urls ==
                 SelectSeq(top, LAMBDA url :
                     \A i \in 1..Len(f.all_fetched_urls) :
                         f.all_fetched_urls[i].url # url)
         IN  IF candidate_urls = <<>> THEN f
             ELSE LET valid_urls ==
                          validate_urls(candidate_urls,
                              ProbesFor(candidate_urls, search.valid)).valid_urls
                      urls_to_fetch ==
                          Take(valid_urls, cfg.DEEP_RESEARCH_URLS_PER_QUERY)
                  IN  FetchCapped(urls_to_fetch, 1, search.fetchable, cfg, f)

\* the synthesis built by the except block around synthesize_content
FailedSynthesis(all_fetched_urls) ==
    [summary |-> <<"Research completed but synthesis failed">>,
     key_facts |-> <<>>,
     quotes |-> <<>>,
     themes |-> <<>>,
     sources_by_priority |-> Urls(all_fetched_urls)]

\* STEP 4: synthesize_content and the three synthesis.get calls run inside
\* the try; a reply that is JSON but not an object makes .get raise
SynthesisStep(topic, all_fetched_urls, reply) ==
    LET r == synthesize_content(topic, all_fetched_urls, reply)
    IN  IF r.raised \/ r.type # "object"
        THEN FailedSynthesis(all_fetched_urls)
        ELSE r.value

\* fact['fact'], fact['source'], quote['quote'] and quote['source'] are
\* subscripted: a missing key is a KeyError
FormatRaises(synthesis) ==
    LET key_facts == Take(Get(synthesis, "key_facts", <<>>), 15)
        quotes == Take(Get(synthesis, "quotes", <<>>), 8)
    IN  \/ \E i \in 1..Len(key_facts) :
              ~({"fact", "source"} \subseteq DOMAIN key_facts[i])
        \/ \E i \in 1..Len(quotes) :
              ~({"quote", "source"} \subseteq DOMAIN quotes[i])

RECURSIVE Flatten(_)
Flatten(seqs) == IF seqs = <<>> THEN <<>> ELSE Head(seqs) \o Flatten(Tail(seqs))

\* the text handed to the writer
format_deep_research_summary(synthesis, fetched_urls) ==
    LET key_facts == Take(Get(synthesis, "key_facts", <<>>), 15)
        quotes == Take(Get(synthesis, "quotes", <<>>), 8)
        themes == Get(synthesis, "themes", <<>>)
        sources == Take(Get(synthesis, "sources_by_priority", <<>>), 15)
    IN  <<"=== DEEP RESEARCH SUMMARY ===">>
        \o Get(synthesis, "summary", <<>>)
        \o <<"=== KEY FINDINGS (with sources) ===">>
        \o Flatten([i \in 1..Len(key_facts) |->
                      key_facts[i].fact \o <<key_facts[i].source>>])
        \o <<"=== NOTABLE QUOTES ===">>
        \o Flatten([i \in 1..Len(quotes) |->
                      quotes[i].quote \o <<quotes[i].source>>])
        \o <<"=== MAIN THEMES ===">>
        \o themes
        \o <<"=== AUTHORITATIVE SOURCES (ranked by priority) ===">>
        \o sources

\* the dict _deep_research returns
DeepUpdate(synthesis, all_fetched_urls, all_queries) ==
    [research_summary |->
         EscapeBraces(format_deep_research_summary(synthesis, all_fetched_urls)),
     research_sources |-> Urls(all_fetched_urls),
     deep_research_enabled |-> TRUE,
     research_queries |-> all_queries,
     research_fetched_urls |-> all_fetched_urls,
     research_key_facts |-> Get(synthesis, "key_facts", <<>>),
     research_quotes |-> Get(synthesis, "quotes", <<>>),
     research_themes |-> Get(synthesis, "themes", <<>>),
     research_structured_data |-> synthesis,
     research_results |->
         [mode |-> "deep",
          queries_generated |-> Len(all_queries),
          urls_fetched |-> Len(all_fetched_urls),
          facts_extracted |-> Len(Get(synthesis, "key_facts", <<>>)),
          quotes_found |-> Len(Get(synthesis, "quotes", <<>>))]]

----------------------------------------------------------------------------
(* A deep research pass, step by step                                      *)

\* (queries, per-query cap, total cap)
DeepConfigs ==
    {[DEEP_RESEARCH_QUERIES |-> 4, DEEP_RESEARCH_URLS_PER_QUERY |-> 3,
      DEEP_RESEARCH_MAX_URLS_TOTAL |-> 5],
     [DEEP_RESEARCH_QUERIES |-> 3, DEEP_RESEARCH_URLS_PER_QUERY |-> 1,
      DEEP_RESEARCH_MAX_URLS_TOTAL |-> 2]}

DeepTopics == {<<"Docker">>}

DeepInstructions ==
    {<<>>,
     <<"Use ", UrlPool[1], " and ", UrlPool[9], ", again ", UrlPool[1],
       " and ", UrlPool[8]>>}

OddUrls == {UrlPool[i] : i \in {1, 3, 5, 7, 9}}

\* which URLs answer the probe / can be retrieved when a step runs
Reachability == {AllUrls, OddUrls, {}}

QueryLines ==
    {<<<<"Docker networking 2026">>, <<"Docker vs Podman">>,
       <<"Docker in production">>, <<"Docker pitfalls">>,
       <<"Docker security">>>>,
     <<<<"Docker networking 2026">>, <<>>, <<"#", "Queries">>,
       <<" ", "Docker networking 2026", " ">>>>,
     <<<<"Docker networking 2026">>, <<"Docker vs Podman">>,
       <<"Docker in production">>>>,
     <<>>}

QueryLlmOutcomes ==
    {[kind |-> "raises", lines |-> <<>>]}
        \cup {[kind |-> "text", lines |-> l] : l \in QueryLines}

Search(kind, results, valid, fetchable) ==
    [kind |-> kind, results |-> results, valid |-> valid,
     fetchable |-> fetchable]

\* what a query can bring back: nothing, three fresh candidates, a long
\* list with a repeated and already seen entries, or a failure
SearchOutcomes ==
    {Search("raises", <<>>, {}, {}),
     Search("results", <<>>, AllUrls, AllUrls),
     Search("results", SubSeq(UrlPool, 1, 3), AllUrls, AllUrls),
     Search("results", SubSeq(UrlPool, 4, 6), AllUrls, AllUrls),
     Search("results", SubSeq(UrlPool, 7, 9), AllUrls, AllUrls),
     Search("results", SubSeq(UrlPool, 1, 3), OddUrls, AllUrls),
     Search("results",
            <<UrlPool[2], UrlPool[2], UrlPool[4], UrlPool[5], UrlPool[6],
              UrlPool[7], UrlPool[8]>>, AllUrls, OddUrls \cup {UrlPool[2]})}

Fact(i) ==
    [fact |-> <<"fact">>, source |-> UrlPool[(i % 9) + 1], confidence |-> "high"]

Quote(i) ==
    [quote |-> <<"quote", "{">>, author |-> "Unknown", source |-> UrlPool[(i % 9) + 1]]

JsonObject(value) == [type |-> "object", value |-> value]

Findings(facts, quotes) ==
    [summary |-> <<"summary">>,
     key_facts |-> [i \in 1..facts |-> Fact(i)],
     quotes |-> [i \in 1..quotes |-> Quote(i)],
     themes |-> <<"containers">>,
     sources_by_priority |-> <<UrlPool[1]>>]

SynthBodies ==
    {[type |-> "prose", value |-> EmptyDict],
     [type |-> "array", value |-> EmptyDict],
     JsonObject(Findings(2, 1)),
     JsonObject(Findings(16, 9)),
     JsonObject([summary |-> <<"summary">>]),
     JsonObject([summary |-> <<"summary">>,
                 key_facts |-> <<[fact |-> <<"fact">>]>>])}

SynthReplies ==
    {[kind |-> "raises", fence |-> "none",
      body |-> [type |-> "prose", value |-> EmptyDict]]}
        \cup {[kind |-> "text", fence |-> "none", body |-> b] : b \in SynthBodies}
        \cup {[kind |-> "text", fence |-> f, body |-> JsonObject(Findings(2, 1))] :
                 f \in {"json", "python"}}

NoFetches == [all_fetched_urls |-> <<>>, fetches |-> <<>>]

\* the locals of _deep_research, with the replies and search outcomes it
\* has met so far
DeepLocals(f, queries, query_idx, query_llm, searches, synth) ==
    [fetched |-> f, queries |-> queries, query_idx |-> query_idx,
     query_llm |-> query_llm, searches |-> searches, synth |-> synth]

InitDeep ==
    /\ pc = "deep_priority"
    /\ call \in {[fn |-> "_deep_research", cfg |-> c] : c \in DeepConfigs}
    /\ state \in {[topic |-> t, instructions |-> i, deep_research_enabled |-> TRUE,
                   errors |-> <<>>, warnings |-> <<>>] :
                     t \in DeepTopics, i \in DeepInstructions}
    /\ trace = <<>>
    /\ output_file = NotWritten
    /\ post_data = NotWritten
    /\ exit_code = -1
    /\ result = DeepLocals(NoFetches, <<>>, 0, <<>>, <<>>, <<>>)

DeepPriority ==
    /\ pc = "deep_priority"
    /\ \E valid \in Reachability, fetchable \in Reachability :
          result' = [result EXCEPT !.fetched =
                        IF Get(state, "instructions", <<>>) # <<>>
                        THEN PriorityStep(state.instructions, valid, fetchable, @)
                        ELSE @]
    /\ pc' = "deep_queries"
    /\ UNCHANGED <<state, trace, output_file, post_data, exit_code, call>>

DeepQueries ==
    /\ pc = "deep_queries"
    /\ \E llm \in QueryLlmOutcomes :
          result' = [result EXCEPT
                        !.queries = QueriesStep(state.topic,
                                        Get(state, "instructions", <<>>),
                                        call.cfg, llm),
                        !.query_llm = <<llm>>,
                        !.query_idx = 1]
    /\ pc' = "deep_search"
    /\ UNCHANGED <<state, trace, output_file, post_data, exit_code, call>>

DeepSearch ==
    /\ pc = "deep_search"
    /\ result.query_idx <= Len(result.queries)
    /\ \E search \in SearchOutcomes :
          result' = [result EXCEPT
                        !.fetched = SearchStep(search, call.cfg, @),
                        !.searches = Append(@, search),
                        !.query_idx = @ + 1]
    /\ UNCHANGED <<pc, state, trace, output_file, post_data, exit_code, call>>

\* STEP 4 and 5 and the return; the update is merged by the graph
DeepSynthesize ==
    /\ pc = "deep_search"
    /\ result.query_idx > Len(result.queries)
    /\ \E reply \in SynthReplies :
          LET all_fetched_urls == result.fetched.all_fetched_urls
              synthesis == SynthesisStep(state.topic, all_fetched_urls, reply)
          IN  /\ result' = [result EXCEPT !.synth = <<reply>>]
              /\ IF FormatRaises(synthesis)
                 THEN pc' = "RAISED" /\ state' = state
                 ELSE /\ pc' = "deep_done"
                      /\ state' = Merge(state,
                             DeepUpdate(synthesis, all_fetched_urls, result.queries))
    /\ trace' = Append(trace, "research")
    /\ UNCHANGED <<output_file, post_data, exit_code, call>>

NextDeep == DeepPriority \/ DeepQueries \/ DeepSearch \/ DeepSynthesize

SpecDeep == InitDeep /\ [][NextDeep]_vars


----------------------------------------------------------------------------
(* Calls of fetch_url_content                                              *)

RepoViews ==
    {Exited(0, JsonObjectText), Exited(0, JsonArrayText), Exited(0, <<>>),
     Exited(1, <<>>), Threw("TimeoutExpired"), Threw("FileNotFoundError"),
     Threw("PermissionError")}

Readmes ==
    {Exited(0, <<"readme text">>), Exited(1, <<>>), Threw("TimeoutExpired"),
     Threw("PermissionError")}

Trees ==
    {Exited(0, JsonObjectText), Exited(0, JsonArrayText),
     Exited(0, <<"<html>">>), Exited(1, <<>>), Threw("TimeoutExpired")}

Curls ==
    {Exited(0, <<"<p>", "page text", "</p>">>),
     Exited(0, <<"<script>app()</script>">>),
     Exited(0, <<>>), Exited(6, <<>>), Exited(28, <<"<p>", "partial">>),
     Threw("TimeoutExpired"), Threw("FileNotFoundError")}

InitFetch ==
    /\ pc = "CALL"
    /\ call \in {[fn |-> "fetch_url_content", url |-> u,
                  env |-> FetchEnv(repo, readme, tree, curl)] :
                    u \in {UrlPool[1], GithubRepoUrl, GithubUserUrl, MalformedUrl},
                    repo \in RepoViews, readme \in Readmes,
                    tree \in Trees, curl \in Curls}
    /\ state = EmptyDict
    /\ trace = <<>>
    /\ output_file = NotWritten
    /\ post_data = NotWritten
    /\ exit_code = -1
    /\ result = NoCall

FetchUrlContentCall ==
    /\ pc = "CALL"
    /\ call.fn = "fetch_url_content"
    /\ result' = [fn |-> call.fn, value |-> fetch_url_content(call.url, call.env)]
    /\ pc' = "FETCHED"
    /\ UNCHANGED <<state, trace, output_file, post_data, exit_code, call>>

NextFetch == FetchUrlContentCall

SpecFetch == InitFetch /\ [][NextFetch]_vars


----------------------------------------------------------------------------
(* Properties                                                              *)

Count(seq, x) == Cardinality({i \in 1..Len(seq) : seq[i] = x})

RunOver == pc \in {"END", "RAISED"}

\* C1: route_editor_decision is total and pure: its result is "writer"
\* exactly when approval_status (read as pending when missing) is rejected
\* and revision_count (0 when missing) is below max_revisions (3 when
\* missing), it is "publisher" otherwise, and the state dict is left as it was.
C1_RouteIsReferenceFunction ==
    pc = "RETURNED" /\ call.fn = "route_editor_decision" =>
        LET s == call.state
            status == IF "approval_status" \in DOMAIN s
                      THEN s.approval_status ELSE "pending"
            count == IF "revision_count" \in DOMAIN s THEN s.revision_count ELSE 0
            budget == IF "max_revisions" \in DOMAIN s THEN s.max_revisions ELSE 3
        IN  /\ result.value \in {"publisher", "writer"}
            /\ status \in {"approved", "force_publish"} => result.value = "publisher"
            /\ result.value = "writer" <=> (status = "rejected" /\ count < budget)
            /\ state = s

C1_Witness ==
    /\ pc = "RETURNED"
    /\ call.fn = "route_editor_decision"
    /\ result.value = "writer"
    /\ "max_revisions" \notin DOMAIN call.state
    /\ "revision_count" \in DOMAIN call.state
    /\ call.state.revision_count = 2

\* C2: a run with max_revisions = 3 whose article fails every gate
\* evaluation evaluates the gate four times and ends with approval_status
\* force_publish and a non-empty forced_publish_note.
C2_FourthEvaluationForcesPublish ==
    (pc = "END" /\ state.max_revisions = 3 /\ state.approval_status # "approved")
        => /\ Count(trace, "editor") = 4
           /\ state.approval_status = "force_publish"
           /\ Get(state, "forced_publish_note", <<>>) # <<>>

BeginsWithNote(content) == Len(content) > 0 /\ content[1].kind = "note"

\* C3: when the revision budget is exhausted without approval, what the
\* publisher writes to the local file and sends to the publish target begins
\* with the forced_publish_note block.
C3_ExhaustedBudgetPublishesNote ==
    (pc = "END" /\ state.approval_status # "approved")
        => /\ BeginsWithNote(post_data.content)
           /\ output_file.written => BeginsWithNote(output_file.content)

\* C4: every run ends at the publisher: the gate and the writer are each
\* invoked at most max_revisions + 1 times, and a run that is over has run
\* the publisher exactly once, as its last stage.
C4_EveryRunEndsAtPublisher ==
    /\ pc \notin {"START", "EXIT", "CALL", "RETURNED"} =>
          /\ Count(trace, "editor") <= state.max_revisions + 1
          /\ Count(trace, "writer") <= state.max_revisions + 1
    /\ RunOver =>
          /\ Count(trace, "publisher") = 1
          /\ trace[Len(trace)] = "publisher"

GateReturned == pc = "RETURNED" /\ call.fn = "editor_node"

\* C6: every gate evaluation decides in priority order: review passes ->
\* approved with empty approval_feedback; else revision_count >=
\* max_revisions -> force_publish with forced_publish_note set and exactly
\* one warning appended; else rejected with the feedback and revision_count
\* incremented by exactly 1.  approved and force_publish leave
\* revision_count unchanged.
C6_GateDecisionPriority ==
    GateReturned =>
        LET before == call.state
            update == result.value
            review == Review(before, call.llm)
        IN  IF review.passes_review
            THEN /\ state.approval_status = "approved"
                 /\ state.approval_feedback = <<>>
                 /\ state.revision_count = before.revision_count
                 /\ state.warnings = before.warnings
            ELSE IF before.revision_count >= before.max_revisions
            THEN /\ state.approval_status = "force_publish"
                 /\ "forced_publish_note" \in DOMAIN update
                 /\ state.forced_publish_note # <<>>
                 /\ Len(state.warnings) = Len(before.warnings) + 1
                 /\ SubSeq(state.warnings, 1, Len(before.warnings)) = before.warnings
                 /\ state.revision_count = before.revision_count
            ELSE /\ state.approval_status = "rejected"
                 /\ state.approval_feedback = review.feedback
                 /\ state.revision_count = before.revision_count + 1
                 /\ state.warnings = before.warnings

C6_Witness ==
    /\ GateReturned
    /\ state.approval_status = "force_publish"
    /\ call.state.revision_count = call.state.max_revisions
    /\ call.state.max_revisions = 3

GateMetrics == AnalyzeContent(call.state.formatted_content)
GateTarget == Get(call.state, "word_count_target", 3500)

\* C7: without the qualitative judgment the gate passes the article iff
\* word_count >= 0.95 x word_count_target exactly (20 wc >= 19 target),
\* link_count >= the minimum, h1_count = 1 and h2_count >= the minimum.
C7_ExactTolerance ==
    GateReturned /\ ~LlmParsed(call.llm) =>
        (state.approval_status = "approved" <=>
            /\ 20 * GateMetrics.word_count >= 19 * GateTarget
            /\ GateMetrics.total_links >= 10
            /\ GateMetrics.h1_count = 1
            /\ GateMetrics.h2_count >= 4)

\* C7 as amended: the word-count threshold is 0.95 x target truncated to an
\* integer, so the article passes iff word_count + 1 > 0.95 x target
\* (20 (wc + 1) > 19 target) and the three structural checks hold.
C7_TruncatedTolerance ==
    GateReturned /\ ~LlmParsed(call.llm) =>
        (state.approval_status = "approved" <=>
            /\ 20 * (GateMetrics.word_count + 1) > 19 * GateTarget
            /\ GateMetrics.total_links >= 10
            /\ GateMetrics.h1_count = 1
            /\ GateMetrics.h2_count >= 4)

\* 3,600 words against the default 3,500 target, 12 links, 1 H1, 5 H2
C7_Witness ==
    /\ GateReturned
    /\ call.llm.kind = "unparseable"
    /\ "word_count_target" \notin DOMAIN call.state
    /\ GateMetrics = [word_count |-> 3600, total_links |-> 12,
                      h1_count |-> 1, h2_count |-> 5]
    /\ state.approval_status = "approved"

\* C8: when the judgment call raises or its output does not parse, the gate
\* still returns a decision, which depends on the mechanical checks alone,
\* adds nothing to errors, and on a mechanical pass is approved with
\* quality_score 0.7.
C8_MechanicalFallback ==
    GateReturned /\ ~LlmParsed(call.llm) =>
        LET checks == MechanicalChecks(GateMetrics, MinWordCount(GateTarget))
            all_pass == \A c \in DOMAIN checks : checks[c]
        IN  /\ state.approval_status \in {"approved", "rejected", "force_publish"}
            /\ state.approval_status = "approved" <=> all_pass
            /\ all_pass => state.quality_score = <<7, 10>>
            /\ "errors" \notin DOMAIN result.value
            /\ state.errors = call.state.errors

C8_Witness ==
    /\ GateReturned
    /\ call.llm.kind = "raises"
    /\ state.approval_status = "approved"
    /\ state.quality_score = <<7, 10>>

Cycle == <<"writer", "formatter", "seo", "editor">>

\* research, one or more (writer, formatter, seo, editor), publisher
FullPath(t) ==
    /\ Len(t) >= 6
    /\ (Len(t) - 2) % 4 = 0
    /\ t[1] = "research"
    /\ t[Len(t)] = "publisher"
    /\ \A i \in 2..(Len(t) - 1) : t[i] = Cycle[((i - 2) % 4) + 1]

\* C9: in every run the stages execute as research, then one or more
\* repetitions of (writer, formatter, seo, gate), then publisher, research
\* and publisher running exactly once.
C9_StageOrder ==
    RunOver =>
        /\ FullPath(trace)
        /\ Count(trace, "research") = 1
        /\ Count(trace, "publisher") = 1

\* C10: no exception raised inside a stage escapes generate_blog_post.
C10_NoExceptionEscapes == pc # "RAISED"

IsPrefix(a, b) == Len(a) <= Len(b) /\ SubSeq(b, 1, Len(a)) = a

\* C11: errors and warnings are append-only across the stages of a run,
\* revision cycles included: after each merged update each list has its
\* previous value as a prefix.
C11_AppendOnly ==
    [][/\ IsPrefix(Get(state, "errors", <<>>), Get(state', "errors", <<>>))
       /\ IsPrefix(Get(state, "warnings", <<>>), Get(state', "warnings", <<>>))]_vars

C11_Witness ==
    /\ Count(trace, "writer") >= 2
    /\ Len(Get(state, "errors", <<>>)) >= 3
    /\ state.errors[1] = "Research error"
    /\ state.errors[3] = "No article content available for revision"

\* C12: on every path of validate_url (status parsed, probe failed, timeout,
\* other exception) is_valid is true iff status_code is present and
\* 200 <= status_code < 400.
C12_ValidIffStatusInRange ==
    pc = "RETURNED" /\ call.fn = "validate_url" =>
        LET r == result.value
        IN  r.is_valid <=> /\ r.status_code # None
                           /\ 200 <= r.status_code[1]
                           /\ r.status_code[1] < 400

C12_Witness ==
    /\ pc = "RETURNED"
    /\ call.fn = "validate_url"
    /\ call.probe.stdout = <<"2", "0", "0", "\n">>
    /\ result.value.is_valid
    /\ result.value.status_code = Some(200)

\* the k-th smallest element of a set of indices
Nth(S, k) == CHOOSE i \in S : Cardinality({j \in S : j <= i}) = k

\* C13: validate_urls returns one result per input URL, in input order and
\* with duplicates kept; its valid list is the subsequence of the input, in
\* original order, of the URLs whose result is valid; an empty input returns
\* two empty lists.
C13_BatchKeepsOrder ==
    pc = "VALIDATED" =>
        LET urls == call.urls
            rs == result.value.validation_results
            v == result.value.valid_urls
            validIdx == {i \in 1..Len(rs) : rs[i].is_valid}
        IN  /\ Len(rs) = Len(urls)
            /\ \A i \in 1..Len(rs) : rs[i].url = urls[i]
            /\ Len(v) = Cardinality(validIdx)
            /\ \A k \in 1..Len(v) : v[k] = urls[Nth(validIdx, k)]
            /\ urls = <<>> => v = <<>> /\ rs = <<>>

C13_Witness ==
    /\ pc = "VALIDATED"
    /\ Len(call.urls) = 4
    /\ call.urls[1] = call.urls[4]
    /\ call.urls[2] # call.urls[1]
    /\ ~result.value.validation_results[3].is_valid
    /\ result.value.valid_urls = <<call.urls[1], call.urls[2], call.urls[1]>>

RECURSIVE SumCounts(_)
SumCounts(f) ==
    IF DOMAIN f = {} THEN 0
    ELSE LET k == CHOOSE x \in DOMAIN f : TRUE
         IN  f[k] + SumCounts([x \in DOMAIN f \ {k} |-> f[x]])

Http404 == <<"HTTP ", "4", "0", "4">>

ScenarioE(rs) ==
    /\ Len(rs) = 4
    /\ Cardinality({i \in 1..4 : rs[i].is_valid}) = 2
    /\ \E i \in 1..4 : rs[i].error = Some(Http404)
    /\ \E i \in 1..4 : rs[i].error = Some(<<"Timeout">>)

\* C14: get_validation_summary returns total = number of results, valid =
\* number with is_valid, invalid = total - valid, success rate =
\* 100 x valid / total (0 for an empty list) and an error_breakdown keyed by
\* each invalid result's error label whose counts sum to invalid; 2 valid,
\* one HTTP 404 and one Timeout give 50.0 and {"HTTP 404": 1, "Timeout": 1}.
C14_SummaryCounts ==
    pc = "SUMMARIZED" =>
        LET rs == result.results
            s == result.value
            inv == {i \in 1..Len(rs) : ~rs[i].is_valid}
        IN  /\ s.total_urls = Len(rs)
            /\ s.valid_urls = Cardinality({i \in 1..Len(rs) : rs[i].is_valid})
            /\ s.invalid_urls = s.total_urls - s.valid_urls
            /\ s.success_rate[2] > 0
            /\ IF Len(rs) = 0 THEN s.success_rate[1] = 0
               ELSE s.success_rate[1] * Len(rs)
                        = 100 * s.valid_urls * s.success_rate[2]
            /\ DOMAIN s.error_breakdown = {ErrorLabel(rs[i]) : i \in inv}
            /\ \A l \in DOMAIN s.error_breakdown :
                    s.error_breakdown[l]
                        = Cardinality({i \in inv : ErrorLabel(rs[i]) = l})
            /\ SumCounts(s.error_breakdown) = s.invalid_urls
            /\ ScenarioE(rs) =>
                    /\ s.success_rate[1] = 50 * s.success_rate[2]
                    /\ DOMAIN s.error_breakdown = {Http404, <<"Timeout">>}
                    /\ s.error_breakdown[Http404] = 1
                    /\ s.error_breakdown[<<"Timeout">>] = 1

C14_Witness ==
    /\ pc = "SUMMARIZED"
    /\ ScenarioE(result.results)
    /\ result.value.success_rate = <<200, 4>>

QueriesGenerated ==
    /\ call.fn = "_deep_research"
    /\ pc \in {"deep_search", "deep_done"}
    /\ result.query_llm[1].kind = "text"

\* C15: generate_queries(topic, instructions, n) returns exactly n query
\* strings, all non-empty and pairwise distinct, whatever the generation
\* capability replied (extra lines truncated, a shortfall padded).
C15_ExactlyNDistinct ==
    QueriesGenerated =>
        LET q == result.queries
        IN  /\ Len(q) = call.cfg.DEEP_RESEARCH_QUERIES
            /\ \A i \in 1..Len(q) : q[i] # <<>>
            /\ \A i, j \in 1..Len(q) : i # j => q[i] # q[j]

QueryGenerationFailed ==
    /\ call.fn = "_deep_research"
    /\ pc \in {"deep_search", "deep_done", "RAISED"}
    /\ result.query_llm[1].kind = "raises"

TemplateList(topic) ==
    <<topic, topic \o <<" best practices">>, topic \o <<" use cases">>,
      topic \o <<" latest developments">>>>

\* C16: when query generation fails, deep research goes on with the list
\* topic, topic + " best practices", topic + " use cases",
\* topic + " latest developments", in this order, and stores that list as
\* the run's research queries.
C16_FallbackQueryList ==
    QueryGenerationFailed =>
        /\ result.queries = TemplateList(state.topic)
        /\ pc = "deep_done" => state.research_queries = TemplateList(state.topic)

C16_Witness ==
    /\ QueryGenerationFailed
    /\ pc = "deep_done"
    /\ Len(result.searches) = 4
    /\ state.research_queries[2] = <<"Docker", " best practices">>
    /\ state.research_queries[4] = <<"Docker", " latest developments">>

SearchesDone ==
    /\ call.fn = "_deep_research"
    /\ pc \in {"deep_done", "RAISED"}

Elements(seq) == {seq[i] : i \in 1..Len(seq)}

\* no priority URLs, and every query brought back fresh candidates that are
\* all valid and fetchable
AllFreshAndGood ==
    /\ extract_urls_from_text(Get(state, "instructions", <<>>)) = <<>>
    /\ \A i \in 1..Len(result.searches) :
          LET s == result.searches[i]
          IN  /\ s.kind = "results"
              /\ s.valid = AllUrls
              /\ s.fetchable = AllUrls
              /\ Cardinality(Elements(s.results)) = Len(s.results)
              /\ \A j \in 1..(i - 1) :
                    Elements(s.results) \cap Elements(result.searches[j].results) = {}

RECURSIVE Admitted(_, _)
Admitted(searches, per_query) ==
    IF searches = <<>> THEN 0
    ELSE Min(per_query, Len(Head(searches).results))
            + Admitted(Tail(searches), per_query)

ScenarioD ==
    /\ call.cfg.DEEP_RESEARCH_MAX_URLS_TOTAL = 5
    /\ Len(result.searches) = 3
    /\ \A i \in 1..3 : Len(result.searches[i].results) = 3

\* C17: with no priority URLs and every candidate valid and fetchable, the
\* number of sources fetched is the minimum of the total-URL cap and the
\* number of candidates the per-query cap admits; a cap of 5 and 3 queries
\* with 3 fresh valid candidates each give exactly 5 sources, not 9.
C17_FetchedIsMinOfCaps ==
    SearchesDone /\ AllFreshAndGood =>
        LET fetched == Len(result.fetched.all_fetched_urls)
        IN  /\ fetched = Min(call.cfg.DEEP_RESEARCH_MAX_URLS_TOTAL,
                             Admitted(result.searches,
                                      call.cfg.DEEP_RESEARCH_URLS_PER_QUERY))
            /\ ScenarioD => fetched = 5

C17_Witness ==
    /\ SearchesDone
    /\ AllFreshAndGood
    /\ ScenarioD
    /\ call.cfg.DEEP_RESEARCH_URLS_PER_QUERY = 3
    /\ pc = "deep_done"
    /\ Len(state.research_sources) = 5

\* C18: at the end of a deep research pass the number of fetched sources,
\* priority URLs included, is at most the total-URL cap, and no fetch is
\* issued once the cap has been reached.
C18_TotalCapRespected ==
    SearchesDone =>
        /\ Len(result.fetched.all_fetched_urls)
               <= call.cfg.DEEP_RESEARCH_MAX_URLS_TOTAL
        /\ \A i \in 1..Len(result.fetched.fetches) :
               result.fetched.fetches[i] < call.cfg.DEEP_RESEARCH_MAX_URLS_TOTAL

\* C19: synthesize_content returns at most 15 key_facts and at most 8
\* quotes, and the research_key_facts and research_quotes stored in the
\* state obey the same limits.
C19_FactsAndQuotesCapped ==
    call.fn = "_deep_research" /\ pc = "deep_done" =>
        /\ Len(Get(state.research_structured_data, "key_facts", <<>>)) <= 15
        /\ Len(Get(state.research_structured_data, "quotes", <<>>)) <= 8
        /\ Len(state.research_key_facts) <= 15
        /\ Len(state.research_quotes) <= 8

Unparseable(reply) ==
    reply.kind = "text" /\ (reply.body.type = "prose" \/ reply.fence = "python")

\* C20: when the reply of the generation capability cannot be parsed as
\* structured data, synthesize_content does not raise and returns the
\* failure-note summary, empty key_facts, quotes and themes, and ranked
\* sources equal to the URLs of all input sources.
C20_DegradedSynthesis ==
    SearchesDone /\ Unparseable(result.synth[1]) =>
        /\ pc = "deep_done"
        /\ LET d == state.research_structured_data
               got == result.fetched.all_fetched_urls
           IN  /\ d.summary = <<"Synthesis failed - see raw research">>
               /\ d.key_facts = <<>>
               /\ d.quotes = <<>>
               /\ d.themes = <<>>
               /\ Len(d.sources_by_priority) = Len(got)
               /\ \A i \in 1..Len(got) : d.sources_by_priority[i] = got[i].url

C20_Witness ==
    /\ SearchesDone
    /\ result.synth[1].fence = "python"
    /\ Len(result.fetched.all_fetched_urls) >= 3
    /\ state.research_structured_data.sources_by_priority
           = <<UrlPool[1], UrlPool[9], UrlPool[8]>>

\* C24: every research_summary the research stage stores, in standard mode,
\* in deep mode and when research fails, has its curly braces doubled: it
\* holds no single unescaped brace.
C24_SummaryBracesEscaped ==
    "research_summary" \in DOMAIN state =>
        \A i \in 1..Len(state.research_summary) :
            state.research_summary[i] \notin {"{", "{x}"}

PublisherRan == Count(trace, "publisher") = 1

\* C25: whenever publishing to the target fails, the publisher returns
\* publication_status = failed with an error appended to errors, and a
\* local file copy of the content to publish was written before the
\* publish attempt.
C25_FailedPublishKeepsLocalCopy ==
    PublisherRan /\ state.publication_status = "failed" =>
        /\ state.errors # <<>>
        /\ state.errors[Len(state.errors)]
               \in {"Publication error", "Publisher exception"}
        /\ output_file # NotWritten
        /\ output_file.content = ContentToPublish(state)

\* C26: for every completed run started from the command line, the exit
\* code is non-zero when the final state's errors list has any entry.
C26_ErrorsGiveNonZeroExit ==
    pc = "EXIT" /\ PublisherRan /\ Get(state, "errors", <<>>) # <<>> =>
        exit_code # 0

C26_Witness ==
    /\ pc = "EXIT"
    /\ PublisherRan
    /\ state.errors = <<"Publication error">>
    /\ state.approval_status = "approved"
    /\ exit_code = 1

\* C27: the research mode follows the request's flag; a run requested
\* without deep research executes the standard pass and ends with
\* deep_research_enabled = false and no research_queries (main and
\* generate_blog_post offer no way to request the deep pass).
C27_ModeFollowsFlag ==
    pc = "END" =>
        /\ "deep_research_enabled" \in DOMAIN state
        /\ state.deep_research_enabled = FALSE
        /\ Get(state, "research_queries", <<>>) = <<>>

\* C28: when the publisher stage starts, approval_status is approved or
\* force_publish, never rejected or pending.
C28_PublisherStartsApproved ==
    pc = "publisher" =>
        state.approval_status \in {"approved", "force_publish"}

\* C29: whenever the publisher stage runs, final_content has been set by
\* the gate and equals the article text the most recent gate evaluation
\* examined; it is not unset or empty while an article exists.
C29_FinalContentSet ==
    pc = "publisher" =>
        LET examined == OrText(Get(state, "formatted_content", <<>>),
                               Get(state, "article_content", <<>>))
        IN  /\ "final_content" \in DOMAIN state
            /\ state.final_content = examined
            /\ examined # <<>> => state.final_content # <<>>

\* C30: every writer invocation that follows a gate rejection runs in
\* revision mode, whatever feedback text the gate produced; only the first
\* writer invocation of a run writes from scratch.
C30_RevisionAfterRejection ==
    pc = "writer" =>
        IF Count(trace, "editor") = 0
        THEN ~IsRevision(state)
        ELSE IsRevision(state)

NoDuplicates(seq) == \A i, j \in 1..Len(seq) : seq[i] = seq[j] => i = j

\* C21: after the research stage research_sources is a duplicate-free
\* list made only of URLs whose validation probe succeeded (in deep mode:
\* a priority URL of the instructions or a URL a search validated).
C21_SourcesDuplicateFree ==
    pc = "deep_done" =>
        /\ NoDuplicates(state.research_sources)
        /\ \A i \in 1..Len(state.research_sources) :
              LET url == state.research_sources[i]
              IN  \/ \E j \in 1..Len(state.instructions) :
                        state.instructions[j] = url
                  \/ \E j \in 1..Len(result.searches) :
                        url \in result.searches[j].valid

CurlFailed(curl) ==
    curl.kind # "exit" \/ curl.returncode # 0 \/ curl.stdout = <<>>

OnRepositoryPath(url) ==
    /\ ~urlparse(url).raised
    /\ is_github_url(url)
    /\ Len(urlparse(url).path_parts) >= 2

GhDegrades(env) ==
    \/ GhException(env) \in GhUnavailable
    \/ GhException(env) = "none" /\ env.repo.returncode # 0

\* the retrieval behind the call failed: the URL cannot be parsed, curl
\* failed on the generic path, a gh call failed unexpectedly on the
\* repository path, or gh was unavailable and curl failed in its place
RetrievalFailed(url, env) ==
    \/ urlparse(url).raised
    \/ ~urlparse(url).raised /\ ~OnRepositoryPath(url) /\ CurlFailed(env.curl)
    \/ OnRepositoryPath(url) /\ ~GhDegrades(env) /\ GhException(env) # "none"
    \/ OnRepositoryPath(url) /\ GhDegrades(env) /\ CurlFailed(env.curl)

====
